---- MODULE Spec2Model ----
(***************************************************************************)
(* The self-update subsystem of TerminalUtils: the version comparison, the *)
(* TTL cache of the latest release (.update_cache.json), the               *)
(* "update available" flag (.update_available.json) and the                *)
(* download-and-apply pipeline, as run by independent processes that share *)
(* one installation directory.                                             *)
(*                                                                         *)
(* Python values are records tagged with their type in field t; a Python   *)
(* str is a sequence of one-character strings.  A file of the installation *)
(* directory is absent, unparseable ("garbage") or holds a JSON value.     *)
(* Operations on files of the installation directory may fail (the code    *)
(* wraps each in try/except); the private temporary file and directory of  *)
(* an update attempt are assumed removable by the process that made them.  *)
(***************************************************************************)
EXTENDS Integers, Sequences, FiniteSets, TLC

\* ------------------------------------------------------------------ bounds
Epoch == 1000
TickStep == 300
MaxTicks == 1
MaxChecks == 2

\* the cache is trusted for 300 seconds
TTL == 300

Procs == {"p1", "p2"}

\* the processes are alike: a process other than the first is started only
\* while the first runs
First == "p1"

\* ----------------------------------------------------------- Python values
None == [t |-> "null"]
Missing == [t |-> "missing"]
Str(s) == [t |-> "str", s |-> s]
Num(n) == [t |-> "num", n |-> n]
Tuple(a, b) == [t |-> "tuple", items |-> <<a, b>>]
List(items) == [t |-> "list", items |-> items]
CacheDict(lc, lt) == [t |-> "dict", last_checked |-> lc, latest |-> lt]
FlagDict(lt, lo, ts) == [t |-> "dict", latest |-> lt, local |-> lo, timestamp |-> ts]

\* bool(v) of Python
Truthy(v) ==
    CASE v.t = "null" -> FALSE
      [] v.t = "missing" -> FALSE
      [] v.t = "str" -> v.s # <<>>
      [] v.t = "num" -> v.n # 0
      [] v.t = "tuple" -> v.items # <<>>
      [] v.t = "list" -> v.items # <<>>
      [] OTHER -> TRUE

\* what json.dump writes for a value: a tuple is written as an array
ToJson(v) == IF v.t = "tuple" THEN List(v.items) ELSE v

\* ------------------------------------------------------------------ files
Absent == [k |-> "absent"]
Garbage == [k |-> "garbage"]
Json(v) == [k |-> "json", v |-> v]
Exists(f) == f.k # "absent"

\* ---------------------------------------------------------------- versions
Digits == {"0", "1", "2", "3", "4", "5", "6", "7", "8", "9"}

DigitVal(c) ==
    CASE c = "0" -> 0 [] c = "1" -> 1 [] c = "2" -> 2 [] c = "3" -> 3
      [] c = "4" -> 4 [] c = "5" -> 5 [] c = "6" -> 6 [] c = "7" -> 7
      [] c = "8" -> 8 [] c = "9" -> 9

RECURSIVE LStrip(_)
\* str.lstrip("vV")
LStrip(s) == IF s # <<>> /\ Head(s) \in {"v", "V"} THEN LStrip(Tail(s)) ELSE s

RECURSIVE SplitAcc(_, _, _)
SplitAcc(s, cur, acc) ==
    IF s = <<>> THEN Append(acc, cur)
    ELSE IF Head(s) = "." THEN SplitAcc(Tail(s), <<>>, Append(acc, cur))
    ELSE SplitAcc(Tail(s), Append(cur, Head(s)), acc)

\* str.split(".")
Split(s) == SplitAcc(s, <<>>, <<>>)

RECURSIVE DigitsVal(_, _)
DigitsVal(p, acc) ==
    IF p = <<>> THEN acc ELSE DigitsVal(Tail(p), 10 * acc + DigitVal(Head(p)))

Unsigned(p) == IF p # <<>> /\ Head(p) \in {"+", "-"} THEN Tail(p) ELSE p

\* int(p) succeeds: an optional sign, then one or more digits (the strings
\* modelled hold no blanks and no underscores)
IsInt(p) == Unsigned(p) # <<>> /\ \A i \in 1..Len(Unsigned(p)) : Unsigned(p)[i] \in Digits

\* int(p)
IntOf(p) ==
    IF Head(p) = "-" THEN 0 - DigitsVal(Unsigned(p), 0) ELSE DigitsVal(Unsigned(p), 0)

RECURSIVE ParseParts(_, _)
\* the loop of parse_version: stop at the first part int() rejects
ParseParts(ps, acc) ==
    IF ps = <<>> THEN acc
    ELSE IF IsInt(Head(ps)) THEN ParseParts(Tail(ps), Append(acc, IntOf(Head(ps))))
    ELSE acc

\* parse_version(v) raises AttributeError: v is truthy and has no lstrip
ParseRaises(v) == Truthy(v) /\ v.t # "str"

\* parse_version(v), for v on which it does not raise
parse_version(v) ==
    IF ~Truthy(v) THEN <<>> ELSE ParseParts(Split(LStrip(v.s)), <<>>)

RECURSIVE TupleLess_PrefixNotLess(_, _)
\* TupleLess with a tuple that is a proper prefix of the other not less than it
TupleLess_PrefixNotLess(a, b) ==
    IF a = <<>> \/ b = <<>> THEN FALSE
    ELSE IF Head(a) # Head(b) THEN Head(a) < Head(b)
    ELSE TupleLess_PrefixNotLess(Tail(a), Tail(b))

RECURSIVE TupleLess(_, _)
\* a < b on Python tuples of int
TupleLess(a, b) ==
    IF b = <<>> THEN FALSE
    ELSE IF a = <<>> THEN TRUE
    ELSE IF Head(a) # Head(b) THEN Head(a) < Head(b)
    ELSE TupleLess(Tail(a), Tail(b))

Bool2Int(b) == IF b THEN 1 ELSE 0

\* compare_versions without its second term: (pa > pb) only
compare_versions_GreaterOnly(a, b) ==
    Bool2Int(TupleLess(parse_version(b), parse_version(a)))

\* compare_versions(a, b) = (pa > pb) - (pa < pb)
compare_versions(a, b) ==
    Bool2Int(TupleLess(parse_version(b), parse_version(a)))
        - Bool2Int(TupleLess(parse_version(a), parse_version(b)))

CompareRaises(a, b) == ParseRaises(a) \/ ParseRaises(b)

\* ------------------------------------------------------------ environment
TagNew == Str(<<"v", "1", ".", "5", ".", "0">>)
Url == Str(<<"u">>)
V140 == Str(<<"1", ".", "4", ".", "0">>)
V150 == Str(<<"1", ".", "5", ".", "0">>)
V200 == Str(<<"2", ".", "0", ".", "0">>)

\* what a request to releases/latest can do: fail to connect, answer with
\* something json.load or .get rejects, or answer with tag_name and zipball_url
FetchOutcomes ==
    {[k |-> "urlerror"], [k |-> "error"],
     [k |-> "ok", tag |-> TagNew, url |-> Url],
     [k |-> "ok", tag |-> None, url |-> None]}

\* pyproject.toml: no version found (None), or the version string
Manifests == {None, V140, V150, V200}

\* the version in the pyproject.toml of the downloaded release
ArchiveManifest == V150

\* .update_cache.json as a process may find it
InitCaches ==
    {Absent, Garbage,
     Json(List(<<>>)),
     Json(CacheDict(Num(Epoch - 100), TagNew)),
     Json(CacheDict(Num(0), TagNew)),
     Json(CacheDict(Num(Epoch - 100), None)),
     Json(CacheDict(Str(<<"x">>), TagNew))}

\* .update_available.json as a process may find it
InitFlags == {Absent, Garbage, Json(FlagDict(TagNew, V140, Num(Epoch - 100)))}

Entries == {"check_for_updates", "interactive_check", "background_check"}

\* clock: time.time(); ticks, started: how often time passed and an entry
\* point was called; cache_file, flag_file: .update_cache.json and
\* .update_available.json; manifest: the version in pyproject.toml;
\* proc: each process's position (pc), local variables, what it printed and
\* how many requests for the latest release it made (fetches);
\* last_cmp: whether the latest comparison any process made found
\* latest > local ("none" before the first, after a flag update that failed
\* and after an applied update)
VARIABLES clock, ticks, started, cache_file, flag_file, manifest, last_cmp, proc

\* ver_a, ver_b: two version strings handed to parse_version and
\* compare_versions on their own; ver_out: what the functions returned
VARIABLES ver_a, ver_b, ver_out

\* one copy walk of download_and_apply_update on its own: tree: the
\* extracted archive below its top directory (directory -> file names);
\* todo: the directories os.walk has yet to yield; dest: the files written
\* under dest_dir; tried: the files shutil.copy2 was called on; warned: the
\* files a "Failed to copy" line was printed for; walk_pc: where the walk is
VARIABLES tree, todo, dest, tried, warned, walk_pc

\* the variables the check processes never touch
aside == <<ver_a, ver_b, ver_out, tree, todo, dest, tried, warned, walk_pc>>

checks == <<clock, ticks, started, cache_file, flag_file, manifest, last_cmp, proc>>

vars == <<clock, ticks, started, cache_file, flag_file, manifest, last_cmp, proc,
          ver_a, ver_b, ver_out, tree, todo, dest, tried, warned, walk_pc>>

\* a process that runs no entry point
IdleProc ==
    [pc |-> "idle", entry |-> "none", now |-> 0, latest |-> None, local_v |-> None,
     cmp |-> "none", out |-> {}, fetch_result |-> "none", fetches |-> 0,
     tag |-> None, zip_url |-> None, tmp_zip |-> FALSE, tmp_dir |-> FALSE,
     phase |-> "IDLE", wrote |-> {}, iofail |-> FALSE,
     reason |-> "none", nag |-> "none"]

\* the entry point has returned or raised: its local variables are gone
Leave(r) ==
    IF r.pc \in {"returned", "raised"}
    THEN [r EXCEPT !.now = 0, !.latest = None, !.local_v = None, !.tag = None,
                   !.zip_url = None, !.fetch_result = "none", !.cmp = "none",
                   !.wrote = {}]
    ELSE r

\* what parse_version and compare_versions returned: nothing yet
NoOut == [k |-> "none"]

\* no version is handed to the functions on their own
VersionsIdle == ver_a = None /\ ver_b = None /\ ver_out = NoOut

\* no copy walk is followed on its own
WalkIdle ==
    /\ tree = {}
    /\ todo = {}
    /\ dest = {}
    /\ tried = {}
    /\ warned = {}
    /\ walk_pc = "idle"

Init ==
    /\ VersionsIdle
    /\ WalkIdle
    /\ clock = Epoch
    /\ ticks = 0
    /\ started = 0
    /\ cache_file \in InitCaches
    /\ flag_file \in InitFlags
    /\ manifest \in Manifests
    /\ last_cmp = "none"
    /\ proc = [p \in Procs |-> IdleProc]

\* ------------------------------------------------------------- the lookup
\* _read_cache: a missing or unparseable file reads as {}
read_cache(f) ==
    IF f.k = "json" THEN f.v ELSE CacheDict(Missing, Missing)

\* dict.get(key, default)
Get(v, default) == IF v.t = "missing" THEN default ELSE v

\* UseCached with the age test the wrong way round
UseCached_Inverted(now, last_checked, cached_latest) ==
    now - last_checked > TTL /\ Truthy(cached_latest)

\* now - last_checked < 300 and cached_latest
UseCached(now, last_checked, cached_latest) ==
    now - last_checked < TTL /\ Truthy(cached_latest)

\* the process after it read the cache and chose between it and a fetch;
\* cache.get on a value that is no dict raises AttributeError, and
\* now - last_checked on a value that is no number raises TypeError
AfterReadCache(r, f) ==
    LET cache == read_cache(f) IN
    IF cache.t # "dict" THEN [r EXCEPT !.pc = "raised", !.reason = "cache"]
    ELSE LET last_checked == Get(cache.last_checked, Num(0))
             cached_latest == Get(cache.latest, None) IN
         IF last_checked.t # "num" THEN [r EXCEPT !.pc = "raised", !.reason = "cache"]
         ELSE IF UseCached(r.now, last_checked.n, cached_latest)
              THEN [r EXCEPT !.pc = "get_local", !.latest = cached_latest, !.now = 0]
              ELSE [r EXCEPT !.pc = "fetch",
                             !.reason = IF r.now - last_checked.n < TTL
                                        THEN "fresh_empty" ELSE "stale"]

\* an entry point is called, d seconds after the call before it:
\* now = time.time(), then the cache is read
Start(p, e, d) ==
    /\ proc[p].pc = "idle"
    /\ p = First \/ proc[First].pc # "idle"
    /\ started < MaxChecks
    /\ started' = started + 1
    /\ d = 0 \/ ticks < MaxTicks
    /\ ticks' = IF d = 0 THEN ticks ELSE ticks + 1
    /\ clock' = clock + d
    /\ proc' = [proc EXCEPT ![p] =
                  Leave(AfterReadCache([IdleProc EXCEPT !.entry = e, !.now = clock'],
                                       cache_file))]
    /\ UNCHANGED <<aside, cache_file, flag_file, manifest, last_cmp>>

\* what the entry point prints when the lookup fails
FailureMessage(e, k) ==
    IF e = "background_check" THEN {}
    ELSE IF e = "check_for_updates" /\ k = "error" THEN {"FailedToDetermine"}
    ELSE {"CouldNotReach"}

\* the value the entry point binds to latest: check_for_updates binds the
\* (tag_name, zipball_url) pair fetch_latest_github_release returns
FetchedLatest(e, o) ==
    IF e = "check_for_updates" THEN Tuple(o.tag, o.url) ELSE o.tag

\* AfterFetch with a failed request taken for "no release" and cached
AfterFetch_CachesFailure(r, o) ==
    IF o.k = "ok"
    THEN [r EXCEPT !.pc = "write_cache", !.fetch_result = "ok", !.fetches = @ + 1,
                   !.tag = o.tag, !.latest = FetchedLatest(r.entry, o)]
    ELSE [r EXCEPT !.pc = "write_cache", !.fetch_result = "failed", !.fetches = @ + 1,
                   !.reason = "fetch_failed", !.tag = None, !.latest = None]

\* the process after the request for the latest release ended as o
AfterFetch(r, o) ==
    IF o.k = "ok"
    THEN [r EXCEPT !.pc = "write_cache", !.fetch_result = "ok", !.fetches = @ + 1,
                   !.tag = o.tag, !.latest = FetchedLatest(r.entry, o)]
    ELSE [r EXCEPT !.pc = "returned", !.fetch_result = "failed", !.fetches = @ + 1,
                   !.reason = "fetch_failed",
                   !.out = @ \cup FailureMessage(r.entry, o.k)]

\* cache = {"last_checked": now, "latest": latest}, as json.dump writes it
NewCacheEntry(now, latest) == Json(CacheDict(Num(now), ToJson(latest)))

\* the request for the latest release ends as o; a fetched value is written
\* to the cache by _write_cache, where a failure to write (~ok) is swallowed
Fetch(p, o, ok) ==
    /\ proc[p].pc = "fetch"
    /\ ok \/ o.k = "ok"
    /\ LET r == AfterFetch(proc[p], o) IN
        IF r.pc = "write_cache"
        THEN /\ cache_file' = IF ok THEN NewCacheEntry(r.now, r.latest) ELSE cache_file
             /\ proc' = [proc EXCEPT ![p] =
                           [r EXCEPT !.pc = "get_local", !.now = 0,
                                     !.wrote = IF ok THEN @ \cup {"cache"} ELSE @,
                                     !.iofail = @ \/ ~ok]]
        ELSE /\ cache_file' = cache_file
             /\ proc' = [proc EXCEPT ![p] = Leave(r)]
    /\ UNCHANGED <<aside, clock, ticks, started, flag_file, manifest, last_cmp>>

\* ------------------------------------------------- the comparison, the flag
CmpName(c) == IF c > 0 THEN "greater" ELSE IF c = 0 THEN "equal" ELSE "less"

\* the message printed for a comparison (background_check prints nothing)
CmpMessage(e, c) ==
    IF e = "background_check" THEN {}
    ELSE IF c > 0 THEN {"UpdateAvailable"}
    ELSE IF c = 0 THEN {"UpToDate"}
    ELSE {"LocalNewer"}

\* where the entry point goes after a comparison: check_for_updates offers the
\* update or returns, the checks of update_check write or remove the flag
CmpNext(e, c) ==
    IF e = "check_for_updates" THEN (IF c > 0 THEN "confirm" ELSE "returned")
    ELSE IF c > 0 THEN "write_flag" ELSE "remove_flag"

\* AfterLocal with a background_check that, finding no local version, goes on
\* to remove the flag
AfterLocal_NoLocalClearsFlag(r, lv) ==
    IF ~Truthy(lv)
    THEN IF r.entry = "background_check"
         THEN [r EXCEPT !.pc = "remove_flag", !.local_v = lv, !.reason = "no_local"]
         ELSE [r EXCEPT !.pc = "returned", !.local_v = lv, !.reason = "no_local",
                        !.out = @ \cup {"LocalNotFound"}]
    ELSE IF ~Truthy(r.latest)
    THEN IF r.entry = "background_check"
         THEN [r EXCEPT !.pc = "remove_flag", !.local_v = lv, !.reason = "no_release"]
         ELSE [r EXCEPT !.pc = "returned", !.local_v = lv, !.reason = "no_release",
                        !.out = @ \cup {"NoReleases"}]
    ELSE IF CompareRaises(r.latest, lv)
    THEN [r EXCEPT !.pc = "raised", !.local_v = lv, !.reason = "compare"]
    ELSE LET c == compare_versions(r.latest, lv) IN
         [r EXCEPT !.pc = CmpNext(r.entry, c), !.local_v = lv, !.cmp = CmpName(c),
                   !.reason = "compared", !.out = @ \cup CmpMessage(r.entry, c)]

\* the process after it read the local version lv: no local version, no
\* latest release, or the comparison (which raises on a latest that is no str)
AfterLocal(r, lv) ==
    IF ~Truthy(lv)
    THEN [r EXCEPT !.pc = "returned", !.local_v = lv, !.reason = "no_local",
                   !.out = IF r.entry = "background_check" THEN @
                           ELSE @ \cup {"LocalNotFound"}]
    ELSE IF ~Truthy(r.latest)
    THEN IF r.entry = "background_check"
         THEN [r EXCEPT !.pc = "remove_flag", !.local_v = lv, !.reason = "no_release"]
         ELSE [r EXCEPT !.pc = "returned", !.local_v = lv, !.reason = "no_release",
                        !.out = @ \cup {"NoReleases"}]
    ELSE IF CompareRaises(r.latest, lv)
    THEN [r EXCEPT !.pc = "raised", !.local_v = lv, !.reason = "compare"]
    ELSE LET c == compare_versions(r.latest, lv) IN
         [r EXCEPT !.pc = CmpNext(r.entry, c), !.local_v = lv, !.cmp = CmpName(c),
                   !.reason = "compared", !.out = @ \cup CmpMessage(r.entry, c)]

GetLocal(p) ==
    /\ proc[p].pc = "get_local"
    /\ proc' = [proc EXCEPT ![p] = Leave(AfterLocal(@, manifest))]
    /\ last_cmp' = LET c == AfterLocal(proc[p], manifest).cmp IN
                   IF c = "none" THEN last_cmp
                   ELSE IF c = "greater" THEN "greater" ELSE "not_greater"
    /\ UNCHANGED <<aside, clock, ticks, started, cache_file, flag_file, manifest>>

\* _write_flag: {"latest", "local", "timestamp": time.time()}
NewFlag(latest, local, ts) == Json(FlagDict(latest, local, Num(ts)))

WriteFlag(p, ok) ==
    /\ proc[p].pc = "write_flag"
    /\ flag_file' = IF ok THEN NewFlag(proc[p].latest, proc[p].local_v, clock)
                    ELSE flag_file
    /\ proc' = [proc EXCEPT ![p] =
                  Leave([@ EXCEPT !.pc = "returned",
                                  !.wrote = IF ok THEN @ \cup {"flag"} ELSE @,
                                  !.iofail = @ \/ ~ok])]
    /\ last_cmp' = IF ok THEN last_cmp ELSE "none"
    /\ UNCHANGED <<aside, clock, ticks, started, cache_file, manifest>>

\* _remove_flag: os.remove if the file exists; a failure is swallowed
RemoveFlag(p, ok) ==
    /\ proc[p].pc = "remove_flag"
    /\ ok \/ Exists(flag_file)
    /\ flag_file' = IF ok THEN Absent ELSE flag_file
    /\ proc' = [proc EXCEPT ![p] =
                  Leave([@ EXCEPT !.pc = "returned",
                                  !.wrote = IF ok /\ Exists(flag_file)
                                            THEN @ \cup {"flag"} ELSE @,
                                  !.iofail = @ \/ ~ok])]
    /\ last_cmp' = IF ok THEN last_cmp ELSE "none"
    /\ UNCHANGED <<aside, clock, ticks, started, cache_file, manifest>>

\* ------------------------------------------------------ the update attempt
\* download_and_apply_update begins: no URL prints and returns False, else
\* the temporary archive file is created
ApplyStart(r) ==
    IF ~Truthy(r.zip_url)
    THEN [r EXCEPT !.pc = "returned", !.phase = "FAILED",
                   !.out = @ \cup {"NoZipUrl", "UpdateFailed"}]
    ELSE [r EXCEPT !.pc = "download", !.phase = "DOWNLOADING", !.tmp_zip = TRUE]

\* questionary.confirm(...).ask(); on yes the release is fetched again for its
\* zipball_url, outside any try, and download_and_apply_update is called
Confirm(p, yes, o) ==
    /\ proc[p].pc = "confirm"
    /\ yes \/ o.k = "urlerror"
    /\ proc' = [proc EXCEPT ![p] =
                  Leave(IF ~yes
                        THEN [@ EXCEPT !.pc = "returned", !.out = @ \cup {"UpdateSkipped"}]
                        ELSE IF o.k # "ok"
                        THEN [@ EXCEPT !.pc = "raised", !.reason = "fetch_zip",
                                       !.fetches = @ + 1]
                        ELSE ApplyStart([@ EXCEPT !.zip_url = o.url,
                                                  !.fetches = @ + 1]))]
    /\ UNCHANGED <<aside, clock, ticks, started, cache_file, flag_file, manifest, last_cmp>>

\* Cleanup with the temporary resources removed after the copy only, not in
\* finally blocks
Cleanup_OnSuccessOnly(r, how) ==
    IF how = "return" THEN Leave([r EXCEPT !.tmp_zip = FALSE, !.tmp_dir = FALSE])
    ELSE Leave(r)

\* the finally blocks: shutil.rmtree(tmp_dir) if it was made, os.unlink(tmp_zip)
Cleanup(r, how) == Leave([r EXCEPT !.tmp_zip = FALSE, !.tmp_dir = FALSE])

\* the archive is downloaded, then tempfile.mkdtemp()
Download(p, ok) ==
    /\ proc[p].pc = "download"
    /\ proc' = [proc EXCEPT ![p] =
                  IF ok THEN [@ EXCEPT !.pc = "extract", !.phase = "EXTRACTING",
                                       !.tmp_dir = TRUE]
                  ELSE Cleanup([@ EXCEPT !.pc = "raised", !.phase = "FAILED",
                                         !.reason = "download"], "raise")]
    /\ UNCHANGED <<aside, clock, ticks, started, cache_file, flag_file, manifest, last_cmp>>

\* Extract with a failed extraction answered by downloading the archive again
Extract_RetriesDownload(p, ok) ==
    /\ proc[p].pc = "extract"
    /\ proc' = [proc EXCEPT ![p] =
                  IF ok THEN [@ EXCEPT !.pc = "copy", !.phase = "COPYING"]
                  ELSE [@ EXCEPT !.pc = "download", !.phase = "DOWNLOADING",
                                 !.tmp_dir = FALSE]]
    /\ UNCHANGED <<aside, clock, ticks, started, cache_file, flag_file, manifest, last_cmp>>

\* shutil.unpack_archive, then zipfile as the fallback
Extract(p, ok) ==
    /\ proc[p].pc = "extract"
    /\ proc' = [proc EXCEPT ![p] =
                  IF ok THEN [@ EXCEPT !.pc = "copy", !.phase = "COPYING"]
                  ELSE Cleanup([@ EXCEPT !.pc = "raised", !.phase = "FAILED",
                                         !.reason = "extract"], "raise")]
    /\ UNCHANGED <<aside, clock, ticks, started, cache_file, flag_file, manifest, last_cmp>>

\* the walk that copies the files: all copied, some copies failed (printed,
\* skipped), or os.makedirs / os.walk raised
Copy(p, how) ==
    /\ proc[p].pc = "copy"
    /\ proc' = [proc EXCEPT ![p] =
                  IF how = "exception"
                  THEN Cleanup([@ EXCEPT !.pc = "raised", !.phase = "FAILED",
                                         !.reason = "copy"], "raise")
                  ELSE Cleanup([@ EXCEPT !.pc = "clear", !.phase = "DONE",
                                         !.out = IF how = "partial"
                                                 THEN @ \cup {"FailedToCopy"} ELSE @],
                               "return")]
    /\ manifest' = IF how = "all" THEN ArchiveManifest ELSE manifest
    /\ UNCHANGED <<aside, clock, ticks, started, cache_file, flag_file, last_cmp>>

\* after a successful apply: remove the cache, then the flag, in one try, so
\* that a cache that cannot be removed (~okc) leaves the flag where it is
Clear(p, okc, okf) ==
    /\ proc[p].pc = "clear"
    /\ okc \/ Exists(cache_file)
    /\ okf \/ (okc /\ Exists(flag_file))
    /\ cache_file' = IF okc THEN Absent ELSE cache_file
    /\ flag_file' = IF okc /\ okf THEN Absent ELSE flag_file
    /\ proc' = [proc EXCEPT ![p] =
                  Leave([@ EXCEPT !.pc = "returned", !.out = @ \cup {"UpdateApplied"},
                                  !.reason = IF ~okc THEN "cache_not_removed"
                                             ELSE IF ~okf THEN "flag_not_removed"
                                             ELSE "cleared",
                                  !.iofail = @ \/ ~okc \/ ~okf,
                                  !.wrote = @ \cup (IF okc /\ Exists(cache_file)
                                                    THEN {"cache"} ELSE {})
                                              \cup (IF okc /\ okf /\ Exists(flag_file)
                                                    THEN {"flag"} ELSE {})])]
    /\ last_cmp' = "none"
    /\ UNCHANGED <<aside, clock, ticks, started, manifest>>

\* ------------------------------------------------------------- the callers
\* the caller of background_check looks for the flag file and prints the nag
\* if it exists (util_handler.main does so after a background_check that raised)
PeekFlag(p) ==
    /\ proc[p].pc \in {"returned", "raised"}
    /\ proc[p].entry = "background_check"
    /\ proc[p].nag = "none"
    /\ proc' = [proc EXCEPT ![p] = [@ EXCEPT !.nag = IF Exists(flag_file)
                                                     THEN "printed" ELSE "silent"]]
    /\ UNCHANGED <<aside, clock, ticks, started, cache_file, flag_file, manifest, last_cmp>>

\* the process ends; after a background_check that returned, its caller has
\* looked for the flag file first
Exit(p) ==
    /\ proc[p].pc \in {"returned", "raised"}
    /\ (proc[p].entry = "background_check" /\ proc[p].pc = "returned")
           => proc[p].nag # "none"
    /\ proc' = [proc EXCEPT ![p] = IdleProc]
    /\ UNCHANGED <<aside, clock, ticks, started, cache_file, flag_file, manifest, last_cmp>>

Next ==
    \/ \E p \in Procs, e \in Entries, d \in {0, TickStep} : Start(p, e, d)
    \/ \E p \in Procs, o \in FetchOutcomes, ok \in BOOLEAN : Fetch(p, o, ok)
    \/ \E p \in Procs : GetLocal(p)
    \/ \E p \in Procs, ok \in BOOLEAN : WriteFlag(p, ok)
    \/ \E p \in Procs, ok \in BOOLEAN : RemoveFlag(p, ok)
    \/ \E p \in Procs, yes \in BOOLEAN, o \in FetchOutcomes : Confirm(p, yes, o)
    \/ \E p \in Procs, ok \in BOOLEAN : Download(p, ok)
    \/ \E p \in Procs, ok \in BOOLEAN : Extract(p, ok)
    \/ \E p \in Procs, how \in {"all", "partial", "exception"} : Copy(p, how)
    \/ \E p \in Procs, okc \in BOOLEAN, okf \in BOOLEAN : Clear(p, okc, okf)
    \/ \E p \in Procs : PeekFlag(p)
    \/ \E p \in Procs : Exit(p)

Spec == Init /\ [][Next]_vars

\* --------------------------------------- the version functions on their own
MaxVerLen == 3

\* the characters version strings are drawn from: the prefix lstrip removes,
\* the separator, two digits, a sign int() accepts
VersionChars == {"v", ".", "1", "2", "-"}

\* the version strings the documentation of the functions talks about
VersionExamples ==
    {<<"2", ".", "3", ".", "1", "0">>, <<"2", ".", "3", ".", "9">>,
     <<"1", ".", "2">>, <<"1", ".", "2", ".", "0">>,
     <<"a", "b", "c">>, <<"0", ".", "0", ".", "1">>,
     <<"V", "1", ".", "5", ".", "0">>, <<"1", ".", "x", ".", "3">>}

VersionStrings ==
    {Str(s) : s \in UNION {[1..k -> VersionChars] : k \in 0..MaxVerLen}
                       \cup VersionExamples}

\* the installation as the version functions and the copy walk find it: no
\* check is running
Installed ==
    /\ clock = Epoch
    /\ ticks = 0
    /\ started = 0
    /\ cache_file = Absent
    /\ flag_file = Absent
    /\ manifest = V140
    /\ last_cmp = "none"
    /\ proc = [p \in Procs |-> IdleProc]

InitVersions ==
    /\ Installed
    /\ WalkIdle
    /\ ver_a \in VersionStrings
    /\ ver_b \in VersionStrings
    /\ ver_out = NoOut

\* parse_version(a), parse_version(b), compare_versions(a, b),
\* compare_versions(b, a) and compare_versions(a, a) are called
CompareVersions ==
    /\ ver_out = NoOut
    /\ ver_out' = [k |-> "out",
                   raised |-> ParseRaises(ver_a) \/ ParseRaises(ver_b),
                   pa |-> parse_version(ver_a),
                   pb |-> parse_version(ver_b),
                   ab |-> compare_versions(ver_a, ver_b),
                   ba |-> compare_versions(ver_b, ver_a),
                   aa |-> compare_versions(ver_a, ver_a)]
    /\ UNCHANGED <<checks, ver_a, ver_b, tree, todo, dest, tried, warned, walk_pc>>

NextVersions == CompareVersions

SpecVersions == InitVersions /\ [][NextVersions]_vars

\* ------------------------------------------------ the copy walk on its own
MaxFiles == 3

\* os.sep
Sep == <<"/">>

DotGit == <<".", "g", "i", "t">>
DotGithub == DotGit \o <<"h", "u", "b">>

\* a directory whose name only begins with .git: .gitlab
DotGitlab == DotGit \o <<"l", "a", "b">>

Sub == <<"s">>

\* os.path.join(a, b) for a relative path a
PathJoin(a, b) == IF a = <<>> THEN b ELSE a \o Sep \o b

\* str.startswith
StartsWith(s, pre) == Len(s) >= Len(pre) /\ SubSeq(s, 1, Len(pre)) = pre

\* a file of the archive: the path of its directory relative to the top
\* directory of the archive ("" for the top directory itself) and its name
File(d, n) == [dir |-> d, name |-> n]

\* the files an archive may hold
ArchiveFiles ==
    {File(<<>>, "main.py"), File(<<>>, "install.sh"),
     File(DotGit, "config"), File(DotGithub, "ci.yml"),
     File(Sub, "util.py"), File(Sub, "install.ps1"),
     File(PathJoin(Sub, DotGit), "config"),
     File(DotGitlab, "notes")}

\* the directories above d, the top directory included
Ancestors(d) ==
    {SubSeq(d, 1, i - 1) : i \in {j \in 1..Len(d) : d[j] = "/"}} \cup
        (IF d = <<>> THEN {} ELSE {<<>>})

\* the directories of the extracted archive
DirsOf(t) == UNION {{f.dir} \cup Ancestors(f.dir) : f \in t} \cup {<<>>}

\* the directories directly below d
Children(t, d) ==
    {c \in DirsOf(t) :
        /\ c # d
        /\ d \in Ancestors(c)
        /\ \A a \in Ancestors(c) : Len(a) <= Len(d)}

\* the orders in which os.listdir may give the directories of S
Orderings(S) ==
    {q \in [1..Cardinality(S) -> S] :
        \A i, j \in 1..Cardinality(S) : i # j => q[i] # q[j]}

\* rel.startswith('.git') or rel.startswith('.github')
SkipDir(rel) == StartsWith(rel, DotGit) \/ StartsWith(rel, DotGithub)

\* f in ("install.sh", "install.ps1", "install.psh")
Installers == {"install.sh", "install.ps1", "install.psh"}

\* the files of directory d the loop calls shutil.copy2 on
ToCopy(t, d) == {f \in t : f.dir = d /\ f.name \notin Installers}

InitWalk ==
    /\ Installed
    /\ VersionsIdle
    /\ tree \in {t \in SUBSET ArchiveFiles : Cardinality(t) \in 1..MaxFiles}
    /\ todo = <<<<>>>>
    /\ dest = {}
    /\ tried = {}
    /\ warned = {}
    /\ walk_pc = "walk"

\* one turn of the loop over os.walk(top), which yields a directory before the
\* directories below it, depth first: a skipped directory is passed over;
\* os.makedirs of the target directory raises (~mk, not for dest_dir itself,
\* which exists) and ends the walk; else each file that is no installer script
\* is copied, a copy that raises (the files in fails) is printed and passed over
WalkDir(mk, fails, below) ==
    /\ walk_pc = "walk"
    /\ todo # <<>>
    /\ LET rel == Head(todo) IN
        /\ below \in Orderings(Children(tree, rel))
        /\ mk \/ (rel # <<>> /\ ~SkipDir(rel))
        /\ fails \subseteq (IF mk /\ ~SkipDir(rel) THEN ToCopy(tree, rel) ELSE {})
        /\ IF SkipDir(rel)
           THEN /\ todo' = below \o Tail(todo)
                /\ walk_pc' = IF todo' = <<>> THEN "done" ELSE "walk"
                /\ UNCHANGED <<dest, tried, warned>>
           ELSE IF ~mk
           THEN /\ walk_pc' = "raised"
                /\ UNCHANGED <<todo, dest, tried, warned>>
           ELSE /\ todo' = below \o Tail(todo)
                /\ walk_pc' = IF todo' = <<>> THEN "done" ELSE "walk"
                /\ tried' = tried \cup ToCopy(tree, rel)
                /\ dest' = dest \cup (ToCopy(tree, rel) \ fails)
                /\ warned' = warned \cup fails
    /\ UNCHANGED <<checks, ver_a, ver_b, ver_out, tree>>

\* the directories os.walk goes into next
Below == IF todo = <<>> THEN {} ELSE Children(tree, Head(todo))

NextWalk ==
    \E mk \in BOOLEAN, fails \in SUBSET tree, below \in Orderings(Below) :
        WalkDir(mk, fails, below)

SpecWalk == InitWalk /\ [][NextWalk]_vars

\* ------------------------------------------- checks that race for the cache
MaxRacers == 3

\* the processes that call an entry point at the same time
Racers == 1..MaxRacers

\* the installation the racing checks find: no cache file or one older than
\* TTL, no flag file, local version 1.4.0
InitRace ==
    /\ VersionsIdle
    /\ WalkIdle
    /\ clock = Epoch
    /\ ticks = 0
    /\ started = 0
    /\ cache_file \in {Absent, Json(CacheDict(Num(0), TagNew))}
    /\ flag_file = Absent
    /\ manifest = V140
    /\ last_cmp = "none"
    /\ proc = [p \in Racers |-> IdleProc]

\* racer p calls entry point e, no time having passed since the others did
\* (the racers are alike: they call in the order of their numbers)
StartRace(p, e) ==
    /\ proc[p].pc = "idle"
    /\ IF p = 1 THEN TRUE ELSE proc[p - 1].pc # "idle"
    /\ started' = started + 1
    /\ proc' = [proc EXCEPT ![p] =
                  Leave(AfterReadCache([IdleProc EXCEPT !.entry = e, !.now = clock],
                                       cache_file))]
    /\ UNCHANGED <<aside, clock, ticks, cache_file, flag_file, manifest, last_cmp>>

NextRace ==
    \/ \E p \in Racers, e \in Entries : StartRace(p, e)
    \/ \E p \in Racers, o \in FetchOutcomes, ok \in BOOLEAN : Fetch(p, o, ok)
    \/ \E p \in Racers : GetLocal(p)
    \/ \E p \in Racers, ok \in BOOLEAN : WriteFlag(p, ok)
    \/ \E p \in Racers, ok \in BOOLEAN : RemoveFlag(p, ok)
    \/ \E p \in Racers, yes \in BOOLEAN, o \in FetchOutcomes : Confirm(p, yes, o)
    \/ \E p \in Racers, ok \in BOOLEAN : Download(p, ok)
    \/ \E p \in Racers, ok \in BOOLEAN : Extract(p, ok)
    \/ \E p \in Racers, how \in {"all", "partial", "exception"} : Copy(p, how)
    \/ \E p \in Racers, okc \in BOOLEAN, okf \in BOOLEAN : Clear(p, okc, okf)

SpecRace == InitRace /\ [][NextRace]_vars

\* ---------------------------------------------------------------- claims
Left(p) == proc[p].pc \in {"returned", "raised"}

\* p takes the step that calls an entry point and reads the cache
Starts(p) == proc[p].pc = "idle" /\ proc'[p].pc # "idle"

\* the cache file holds an entry checked less than TTL seconds before now
FreshEntry(f, now) ==
    /\ f.k = "json"
    /\ f.v.t = "dict"
    /\ f.v.last_checked.t = "num"
    /\ now - f.v.last_checked.n < TTL

\* the cache file is missing, or holds no entry, or an entry older than TTL
StaleOrAbsent(f, now) ==
    \/ f.k = "absent"
    \/ /\ f.k = "json"
       /\ f.v.t = "dict"
       /\ f.v.last_checked.t = "num"
       /\ now - f.v.last_checked.n >= TTL

\* the cache file is missing, unparseable, no object, or an object whose
\* fields have unexpected types
MalformedCache(f) ==
    \/ f.k \in {"absent", "garbage"}
    \/ f.v.t # "dict"
    \/ f.v.last_checked.t \notin {"num", "missing"}
    \/ f.v.latest.t \notin {"str", "null", "missing"}

\* the flag file exists and holds no flag record
CorruptFlag(f) == f.k = "garbage" \/ (f.k = "json" /\ f.v.t # "dict")

\* C1: no entry point ever raises to its caller.
C1_NeverRaises == \A p \in Procs : proc[p].pc # "raised"

\* C2, as claimed: a check that finds a cache entry less than 300 seconds old
\* uses its latest field and fetches nothing, whatever that field holds.
C2_FreshCacheAlwaysUsed ==
    [][\A p \in Procs :
          (Starts(p) /\ FreshEntry(cache_file, clock'))
              => /\ proc'[p].pc = "get_local"
                 /\ proc'[p].latest = Get(cache_file.v.latest, None)
                 /\ proc'[p].fetch_result = "none"]_vars

\* C2, amended: a check that finds a cache entry less than 300 seconds old
\* whose latest field is not empty uses that field and fetches nothing before
\* the comparison; a fresh entry whose latest is null or empty is fetched anew.
C2_FreshNonEmptyCacheUsed ==
    [][\A p \in Procs :
          (Starts(p) /\ FreshEntry(cache_file, clock'))
              => IF Truthy(Get(cache_file.v.latest, None))
                 THEN /\ proc'[p].pc = "get_local"
                      /\ proc'[p].latest = cache_file.v.latest
                      /\ proc'[p].fetch_result = "none"
                 ELSE proc'[p].pc = "fetch"]_vars

C2_Witness ==
    \E p \in Procs :
        /\ proc[p].pc = "get_local"
        /\ proc[p].fetch_result = "none"
        /\ proc[p].latest = TagNew

\* C3: a check that finds the cache absent or older than 300 seconds fetches,
\* and when the fetch answers, the cache file holds the fresh entry
\* {last_checked: now, latest: the fetched tag} and the fetched tag is the latest
\* the check goes on with.
C3_StaleCacheRefetched ==
    [][\A p \in Procs :
          /\ (Starts(p) /\ StaleOrAbsent(cache_file, clock')) => proc'[p].pc = "fetch"
          /\ (/\ proc[p].pc = "fetch"
              /\ proc[p].reason = "stale"
              /\ proc'[p].pc = "get_local"
              /\ ~proc'[p].iofail)
                 => /\ cache_file' = Json(CacheDict(Num(proc[p].now), proc'[p].tag))
                    /\ proc'[p].latest = proc'[p].tag]_vars

\* C4: a check whose fetch fails leaves the cache file and the flag file as
\* they were, returns, and reports that the check failed, not that there is no
\* release (background_check reports nothing).
C4_FetchFailureLeavesFiles ==
    [][\A p \in Procs :
          (proc[p].pc = "fetch" /\ proc'[p].reason = "fetch_failed")
              => /\ cache_file' = cache_file
                 /\ flag_file' = flag_file
                 /\ proc[p].wrote = {}
                 /\ proc'[p].pc = "returned"
                 /\ "NoReleases" \notin proc'[p].out
                 /\ proc[p].entry # "background_check"
                        => proc'[p].out \cap {"CouldNotReach", "FailedToDetermine"} # {}]_vars

C4_Witness ==
    \E p \in Procs :
        /\ proc[p].pc = "returned"
        /\ proc[p].reason = "fetch_failed"
        /\ "CouldNotReach" \in proc[p].out
        /\ Exists(cache_file)
        /\ Exists(flag_file)

\* the comparison of the check p is in
CmpOf(p) ==
    IF proc[p].pc = "get_local"
    THEN CmpName(compare_versions(proc[p].latest, manifest))
    ELSE proc[p].cmp

\* C5: when a check that compared the versions returns (no update was applied
\* and no file operation failed), the flag file holds latest, local and a fresh
\* timestamp if latest > local, and does not exist otherwise.
C5_FlagMatchesComparison ==
    [][\A p \in Procs :
          (/\ ~Left(p)
           /\ proc'[p].pc = "returned"
           /\ proc'[p].reason = "compared"
           /\ ~proc'[p].iofail
           /\ proc'[p].out \cap {"UpdateApplied", "UpdateFailed"} = {})
              => IF CmpOf(p) = "greater"
                 THEN flag_file' = NewFlag(proc[p].latest, proc[p].local_v, clock)
                 ELSE flag_file' = Absent]_vars

\* C6: whenever no check is under way, the flag file exists iff the latest
\* comparison made by any process found latest > local.
C6_FlagConsistentWithLastComparison ==
    (last_cmp # "none" /\ \A p \in Procs : proc[p].pc \in {"idle", "returned", "raised"})
        => (Exists(flag_file) <=> last_cmp = "greater")

\* C7, as claimed: a check that finds no local version returns without having
\* written the cache file or the flag file.
C7_NoLocalVersionWritesNothing ==
    [][\A p \in Procs :
          (proc[p].pc = "get_local" /\ proc'[p].reason = "no_local")
              => /\ proc[p].wrote = {}
                 /\ cache_file' = cache_file
                 /\ flag_file' = flag_file]_vars

\* C7, amended: a check that finds no local version returns without touching
\* the flag file; it has overwritten the cache file exactly when it had to fetch
\* and the fetch and the write succeeded, which happens before the local version
\* is read.
C7_NoLocalVersionLeavesFlag ==
    [][\A p \in Procs :
          (proc[p].pc = "get_local" /\ proc'[p].pc # "get_local" /\ ~Truthy(manifest))
              => /\ proc'[p].pc = "returned"
                 /\ proc'[p].reason = "no_local"
                 /\ cache_file' = cache_file
                 /\ flag_file' = flag_file
                 /\ "flag" \notin proc[p].wrote
                 /\ ("cache" \in proc[p].wrote)
                        <=> (proc[p].fetch_result = "ok" /\ ~proc[p].iofail)]_vars

C7_Witness ==
    \E p \in Procs :
        /\ proc[p].pc = "returned"
        /\ proc[p].reason = "no_local"
        /\ cache_file.k = "json"
        /\ cache_file.v.t = "dict"
        /\ cache_file.v.last_checked = Num(clock)
        /\ Exists(flag_file)

\* C8: a check that finds the cache file missing or malformed goes on to the
\* remote fetch, as with an empty cache, and raises nothing.
C8_MalformedCacheIsEmptyCache ==
    [][\A p \in Procs :
          (Starts(p) /\ MalformedCache(cache_file)) => proc'[p].pc = "fetch"]_vars

\* C9: a caller that finds a corrupted flag file after its background_check
\* returned prints no nag, as if the file were absent.
C9_CorruptFlagIsNoFlag ==
    [][\A p \in Procs :
          (/\ proc[p].pc = "returned"
           /\ proc[p].nag = "none"
           /\ proc'[p].nag # "none"
           /\ CorruptFlag(flag_file))
              => proc'[p].nag = "silent"]_vars

Segments(d) ==
    {SubSeq(d, ij[1], ij[2]) : ij \in
        {ij \in (1..Len(d)) \X (1..Len(d)) :
            /\ ij[1] <= ij[2]
            /\ ij[1] = 1 \/ d[ij[1] - 1] = "/"
            /\ ij[2] = Len(d) \/ d[ij[2] + 1] = "/"
            /\ \A k \in ij[1]..ij[2] : d[k] # "/"}}

\* the files the update must never write: those below a directory named .git
\* or .github, at any depth, and the installer scripts
Excluded(f) ==
    \/ Segments(f.dir) \cap {DotGit, DotGithub} # {}
    \/ f.name \in Installers

\* C11: the walk writes no file that lies below a .git or .github directory
\* (at any depth) or is an installer script, and when the walk is done every
\* other file of the archive whose copy did not fail is written under the same
\* relative path.
C11_OnlyAllowedFilesCopied ==
    /\ \A f \in dest : f \in tree /\ ~Excluded(f)
    /\ walk_pc = "done"
           => \A f \in tree : (~Excluded(f) /\ f \notin warned) => f \in dest

\* C12: an update attempt whose download or extraction fails returns False to
\* check_for_updates, which prints "Update failed."; an attempt whose download
\* and extraction succeeded returns True (and the cache and the flag are
\* cleared) even if copies of single files failed.
C12_FailureReportedByResult ==
    [][\A p \in Procs :
          /\ (proc[p].pc \in {"download", "extract"} /\ proc'[p].phase = "FAILED")
                 => /\ proc'[p].pc = "returned"
                    /\ "UpdateFailed" \in proc'[p].out
          /\ (proc[p].pc = "copy" /\ "FailedToCopy" \in proc'[p].out)
                 => proc'[p].pc = "clear"]_vars

\* the cache file holds the tag v1.5.0, checked less than TTL seconds before now
FreshTagNew(f, now) == FreshEntry(f, now) /\ f.v.latest = TagNew

\* C13: with local version 1.4.0 and latest release 1.5.0, an interactive check
\* that found no fresh cache and fetched the release reports "update
\* available" and, when it returns, leaves the flag {latest: 1.5.0, local:
\* 1.4.0}; an interactive check started less than 300 seconds after the cache
\* was written fetches nothing and reports the same.
C13_EndToEnd ==
    [][\A p \in Procs :
          proc'[p].entry \in {"check_for_updates", "interactive_check"}
              => /\ (/\ proc[p].pc = "get_local"
                     /\ proc'[p].pc # "get_local"
                     /\ proc[p].fetch_result = "ok"
                     /\ proc[p].tag = TagNew
                     /\ manifest = V140)
                        => /\ proc'[p].pc # "raised"
                           /\ "UpdateAvailable" \in proc'[p].out
                 /\ (/\ ~Left(p)
                     /\ proc'[p].pc = "returned"
                     /\ proc[p].fetch_result = "ok"
                     /\ proc[p].tag = TagNew
                     /\ proc[p].local_v = V140
                     /\ ~proc'[p].iofail)
                        => /\ flag_file'.k = "json"
                           /\ flag_file'.v.latest = TagNew
                           /\ flag_file'.v.local = V140
                 /\ (Starts(p) /\ FreshTagNew(cache_file, clock'))
                        => /\ proc'[p].pc = "get_local"
                           /\ proc'[p].fetch_result = "none"
                 /\ (/\ proc[p].pc = "get_local"
                     /\ proc'[p].pc # "get_local"
                     /\ proc[p].fetch_result = "none"
                     /\ proc[p].latest = TagNew
                     /\ manifest = V140)
                        => "UpdateAvailable" \in proc'[p].out]_vars

\* C14: for all version strings a and b, compare_versions(a, b) =
\* -compare_versions(b, a), and compare_versions(a, a) = 0.
C14_Antisymmetric ==
    ver_out # NoOut
        => /\ ~ver_out.raised
           /\ ver_out.ab = 0 - ver_out.ba
           /\ ver_out.aa = 0

C14_Witness ==
    /\ ver_out # NoOut
    /\ ver_a = Str(<<"2", ".", "3", ".", "1", "0">>)
    /\ ver_b = Str(<<"2", ".", "3", ".", "9">>)
    /\ ver_out.ab = 1
    /\ ver_out.ba = 0 - 1

\* x comes before y in the lexicographic order of integer sequences: at the
\* first place where they differ x has the smaller number, or x has ended
LexLess(x, y) ==
    \E i \in 1..Len(y) :
        /\ i <= Len(x) + 1
        /\ \A j \in 1..(i - 1) : x[j] = y[j]
        /\ i = Len(x) + 1 \/ x[i] < y[i]

LexOrder(x, y) == IF LexLess(x, y) THEN 0 - 1 ELSE IF LexLess(y, x) THEN 1 ELSE 0

\* C15: compare_versions(a, b) is the lexicographic order of the parsed integer
\* sequences, components compared as numbers (2.3.10 > 2.3.9, 12 > 2), and a
\* sequence that is a proper prefix of the other is the lesser (1.2 < 1.2.0).
C15_LexicographicOrder ==
    ver_out # NoOut
        => /\ ver_out.ab = LexOrder(ver_out.pa, ver_out.pb)
           /\ (ver_a.s = <<"2", ".", "3", ".", "1", "0">> /\ ver_b.s = <<"2", ".", "3", ".", "9">>)
                  => ver_out.ab = 1
           /\ (ver_a.s = <<"1", "2">> /\ ver_b.s = <<"2">>) => ver_out.ab = 1
           /\ (ver_a.s = <<"1", ".", "2">> /\ ver_b.s = <<"1", ".", "2", ".", "0">>)
                  => ver_out.ab = 0 - 1

C15_Witness ==
    /\ ver_out # NoOut
    /\ ver_a = Str(<<"1", ".", "2">>)
    /\ ver_b = Str(<<"1", ".", "2", ".", "0">>)
    /\ ver_out.pa = <<1, 2>>
    /\ ver_out.pb = <<1, 2, 0>>
    /\ ver_out.ab = 0 - 1

\* C16: parse_version never raises on a version string; every component of its
\* result is a non-negative integer; "abc" and "" give the empty tuple; the
\* empty tuple compares equal to itself and less than every tuple that is not
\* empty.
C16_ParseTotalNonNegative ==
    ver_out # NoOut
        => /\ ~ver_out.raised
           /\ \A i \in 1..Len(ver_out.pa) : ver_out.pa[i] >= 0
           /\ ver_a.s \in {<<>>, <<"a", "b", "c">>} => ver_out.pa = <<>>
           /\ (ver_out.pa = <<>> /\ ver_out.pb = <<>>) => ver_out.ab = 0
           /\ (ver_out.pa = <<>> /\ ver_out.pb # <<>>) => ver_out.ab = 0 - 1

\* C17: a flag file that exists records a latest version strictly greater than
\* the local version it records; a check that finds latest <= local leaves no
\* flag file when it returns, and neither does an update that was applied (no
\* file operation having failed).
C17_FlagOnlyWhenNewer ==
    /\ [](flag_file.k = "json"
             => compare_versions(flag_file.v.latest, flag_file.v.local) > 0)
    /\ [][\A p \in Procs :
             /\ (/\ ~Left(p)
                 /\ proc'[p].pc = "returned"
                 /\ proc'[p].reason = "compared"
                 /\ ~proc'[p].iofail
                 /\ CmpOf(p) # "greater")
                    => flag_file' = Absent
             /\ (/\ proc[p].pc = "clear"
                 /\ proc'[p].pc = "returned"
                 /\ ~proc'[p].iofail)
                    => flag_file' = Absent]_vars

\* the steps of one update attempt
PhaseEdges ==
    {<<"IDLE", "DOWNLOADING">>, <<"IDLE", "FAILED">>,
     <<"DOWNLOADING", "EXTRACTING">>, <<"DOWNLOADING", "FAILED">>,
     <<"EXTRACTING", "COPYING">>, <<"EXTRACTING", "FAILED">>,
     <<"COPYING", "DONE">>, <<"COPYING", "FAILED">>}

\* C18: an update attempt only moves forward through IDLE, DOWNLOADING,
\* EXTRACTING, COPYING and DONE or FAILED: extraction begins only with the
\* archive downloaded, copying only with it extracted; once DONE or FAILED the
\* attempt takes no further step of the pipeline; the phase is IDLE again only
\* when the process has ended and the user may call the check anew.
C18_ForwardOnly ==
    /\ [](\A p \in Procs :
             /\ proc[p].pc = "download" <=> proc[p].phase = "DOWNLOADING"
             /\ proc[p].pc = "extract" <=> proc[p].phase = "EXTRACTING"
             /\ proc[p].pc = "copy" <=> proc[p].phase = "COPYING"
             /\ proc[p].phase = "DONE" => proc[p].pc \in {"clear", "returned"}
             /\ proc[p].phase = "FAILED" => proc[p].pc \in {"returned", "raised"}
             /\ proc[p].phase = "EXTRACTING" => proc[p].tmp_zip /\ proc[p].tmp_dir)
    /\ [][\A p \in Procs :
             proc'[p].phase # proc[p].phase
                 => \/ <<proc[p].phase, proc'[p].phase>> \in PhaseEdges
                    \/ /\ proc[p].phase \in {"DONE", "FAILED"}
                       /\ Left(p)
                       /\ proc'[p] = IdleProc]_vars

C18_Witness ==
    \E p \in Procs :
        /\ proc[p].phase = "FAILED"
        /\ proc[p].reason = "download"
        /\ proc[p].pc = "raised"

\* C19: nothing that fails for a single file or for its target directory ends
\* the walk: the walk never ends with an exception, and when it has ended
\* shutil.copy2 was called on every file that is in no skipped directory and is
\* no installer script, each of them either written or warned about.
C19_WalkNeverAborts ==
    /\ walk_pc # "raised"
    /\ walk_pc = "done"
           => /\ \A f \in tree :
                     (~SkipDir(f.dir) /\ f.name \notin Installers) => f \in tried
              /\ tried = dest \cup warned

\* C20: when every file of the update has been copied and check_for_updates
\* clears the cache and the flag, both files are absent afterwards unless a
\* removal failed, and the flag file is absent unless its own removal failed,
\* whether or not the cache file could be removed; a check that starts with
\* the cache file absent fetches.
C20_ClearedAfterApply ==
    [][\A p \in Procs :
          /\ (/\ proc[p].pc = "clear"
              /\ proc'[p].pc = "returned"
              /\ "FailedToCopy" \notin proc[p].out)
                 => /\ ~proc'[p].iofail => (cache_file' = Absent /\ flag_file' = Absent)
                    /\ proc'[p].reason # "flag_not_removed" => flag_file' = Absent
          /\ (Starts(p) /\ cache_file = Absent) => proc'[p].pc = "fetch"]_vars

\* the requests for the latest release the racing checks have made
Requests ==
    LET Sum[Q \in SUBSET Racers] ==
            IF Q = {} THEN 0
            ELSE LET q == CHOOSE x \in Q : TRUE IN proc[q].fetches + Sum[Q \ {q}]
    IN Sum[Racers]

\* C21: however the cache reads, requests and cache writes of checks that run
\* at the same time interleave, at most two requests for the latest release
\* are made within one TTL window, and no check that reads what another left in
\* the cache raises on it.
C21_RaceCostsOneFetch ==
    /\ Requests <= 2
    /\ \A p \in Racers :
           ~(/\ proc[p].pc = "raised"
             /\ proc[p].reason \in {"cache", "compare"}
             /\ proc[p].fetches = 0)

\* C22: whichever entry point wrote it, the latest field of the cache entry in
\* the cache file is null or one release tag string.
C22_CachedLatestIsTag ==
    (cache_file.k = "json" /\ cache_file.v.t = "dict")
        => cache_file.v.latest.t \in {"null", "str"}

====
